---------------------------- MODULE Spec2Model ----------------------------
(***************************************************************************)
(* A model of the HGVS parser wrapper (src/src/hgvs/parser.py) and of the  *)
(* failure explainer (src/src/hgvs/parserexplainer.py), with the result    *)
(* tree of src/src/hgvs/hgvsexplained.py.                                  *)
(*                                                                         *)
(* A text is a sequence of units.  Every unit is one character, except the *)
(* unit CharExpected, which stands for the literal run of characters       *)
(* "char 1: expected x" inside an input text.  A message is a sequence of  *)
(* units and of the literal pieces that rule_fxn's format string puts      *)
(* between them.  The grammar engine (parsley/ometa) is outside the        *)
(* repository: it is a deterministic function of the text whose value is   *)
(* chosen the first time a text is parsed and kept in `oracle`.            *)
(***************************************************************************)
EXTENDS Integers, Sequences, FiniteSets, TLC

\* ------------------------------------------------------------------ bounds
\* longest free-form input text, in units
MaxLen == 2
\* the most rules of a grammar handed to _expose_rule_functions
MaxRules == 2
\* longest tail after "NM" / "NP" in the dual-accession input texts, in units
MaxAcc == 1
\* the most texts of one run for which the grammar engine expects EOF
MaxEOF == 1
\* the most letters of an amino-acid code in the protein-shorthand input texts
MaxAA == 3

\* ------------------------------------------------------------------ texts
CharExpected == "char 1: expected x"
Chars == {"N", "M", "P", ",", " ", "x", CharExpected}
Whitespace == {" "}
\* the units after "NM" and "NP" in the dual-accession input texts
AccChars == {"x"}

SeqsUpTo(S, n) == UNION {[1..k -> S] : k \in 0..n}

\* "NM<acc>, NP<acc>": the shape of two accessions given as one text
DualTexts ==
  {<<"N", "M">> \o u \o <<",", " ", "N", "P">> \o w :
     u \in (SeqsUpTo(AccChars, MaxAcc) \ {<<>>}),
     w \in (SeqsUpTo(AccChars, MaxAcc) \ {<<>>})}

\* the letters of the amino-acid codes in the protein-shorthand input texts
AAChars == {"x"}
AACodes == {a \in SeqsUpTo(AAChars, MaxAA) : Len(a) >= MaxAA - 1}

\* "P.<code>1<code>": the shape of protein-change shorthand, and near misses
ProteinTexts == {<<"P", ".">> \o a \o <<"1">> \o b : a \in AACodes, b \in AACodes}

Texts == SeqsUpTo(Chars, MaxLen) \cup DualTexts \cup ProteinTexts

Max(a, b) == IF a > b THEN a ELSE b
MaxTextLen == Max(MaxLen, Max(8 + 2 * MaxAcc, 3 + 2 * MaxAA))

\* ------------------------------------------------------------ python str
\* v[:n]
SliceTo(v, n) == SubSeq(v, 1, IF n < Len(v) THEN n ELSE Len(v))
\* v[n:]
SliceFrom(v, n) == SubSeq(v, n + 1, Len(v))

RECURSIVE LStrip(_)
LStrip(s) == IF s # <<>> /\ Head(s) \in Whitespace THEN LStrip(Tail(s)) ELSE s
RECURSIVE RStrip(_)
RStrip(s) ==
  IF s # <<>> /\ s[Len(s)] \in Whitespace THEN RStrip(SubSeq(s, 1, Len(s) - 1)) ELSE s
\* str.strip()
Strip(s) == RStrip(LStrip(s))

\* ------------------------------------------------------- grammar engine
\* exc.formatReason() of ometa.runtime.ParseError: "expected <description>", or
\* a reason that is not an expectation
EOF == "EOF"
ADigit == "a digit"
OneOfOrADigit == "one of ',', '.' or a digit"
ResidueTypes == "one of 'c', 'g', 'm', 'n', 'p', or 'r'"
OtherExpected == "a letter"
Descriptions == {EOF, ADigit, OneOfOrADigit, ResidueTypes, OtherExpected}
Reasons == {<<"expected ", d>> : d \in Descriptions} \cup {<<"Syntax error">>}

NoneVal == <<>>
SequenceVariant(s) == <<"SequenceVariant">> \o s

\* what self._grammar(s).hgvs_variant() can do with s: return a value, or raise
\* ParseError(position, reason)
EngineOutcomes(s) ==
  {[ok |-> TRUE, position |-> 0, reason |-> <<>>]}
  \cup {[ok |-> FALSE, position |-> p, reason |-> r] : p \in 0..Len(s), r \in Reasons}

\* rule_fxn's "{s}: char {exc.position}: {reason}"
FormatMessage(s, position, reason) ==
  s \o <<": char ", ToString(position), ": ">> \o reason

\* ------------------------------------------------------------------ regex
Digits == {ToString(n) : n \in 0..MaxTextLen}
\* int(match.group(1))
ToInt(g) == CHOOSE n \in 0..MaxTextLen : ToString(n) = g

\* "char (\d+): expected (.+)$" matches starting inside unit i of msg
CharExpectedAt(msg, i) ==
  \/ msg[i] = CharExpected
  \/ /\ i + 4 <= Len(msg)
     /\ msg[i] = ": char "
     /\ msg[i + 1] \in Digits
     /\ msg[i + 2] = ": "
     /\ msg[i + 3] = "expected "

\* re.search("char (\d+): expected (.+)$", msg): the leftmost match, as a
\* sequence holding the match's groups, or the empty sequence for None.  No unit
\* is a newline, so (.+)$ runs to the end of the message.
SearchCharExpected(msg) ==
  LET hits == {i \in 1..Len(msg) : CharExpectedAt(msg, i)}
  IN IF hits = {} THEN <<>>
     ELSE LET i == CHOOSE k \in hits : \A j \in hits : k <= j
          IN IF msg[i] = CharExpected
             THEN <<[group1 |-> "1", group2 |-> <<"x">> \o SubSeq(msg, i + 1, Len(msg))]>>
             ELSE <<[group1 |-> msg[i + 1], group2 |-> SubSeq(msg, i + 4, Len(msg))]>>

\* the characters of a unit of a message
Spelling(u) ==
  CASE u = CharExpected ->
         <<"c", "h", "a", "r", " ", "1", ":", " ",
           "e", "x", "p", "e", "c", "t", "e", "d", " ", "x">>
    [] u = ": char " -> <<":", " ", "c", "h", "a", "r", " ">>
    [] u = ": " -> <<":", " ">>
    [] u = "expected " -> <<"e", "x", "p", "e", "c", "t", "e", "d", " ">>
    [] u = "Syntax error" ->
         <<"S", "y", "n", "t", "a", "x", " ", "e", "r", "r", "o", "r">>
    [] u = EOF -> <<"E", "O", "F">>
    [] u = ADigit -> <<"a", " ", "d", "i", "g", "i", "t">>
    [] u = OneOfOrADigit ->
         <<"o", "n", "e", " ", "o", "f", " ", "'", ",", "'", ",", " ",
           "'", ".", "'", " ", "o", "r", " ", "a", " ", "d", "i", "g", "i", "t">>
    [] u = ResidueTypes ->
         <<"o", "n", "e", " ", "o", "f", " ", "'", "c", "'", ",", " ",
           "'", "g", "'", ",", " ", "'", "m", "'", ",", " ", "'", "n", "'", ",", " ",
           "'", "p", "'", ",", " ", "o", "r", " ", "'", "r", "'">>
    [] u = OtherExpected -> <<"a", " ", "l", "e", "t", "t", "e", "r">>
    [] u \in Digits /\ ToInt(u) >= 10 ->
         <<ToString(ToInt(u) \div 10), ToString(ToInt(u) % 10)>>
    [] OTHER -> <<u>>

RECURSIVE Spell(_)
Spell(msg) == IF msg = <<>> THEN <<>> ELSE Spelling(Head(msg)) \o Spell(Tail(msg))

\* [a-zA-Z] and \d over the characters the messages are spelled with
Letters ==
  {"a", "c", "d", "e", "f", "g", "h", "i", "l", "m", "n", "o", "p", "r", "t", "x", "y",
   "E", "F", "M", "N", "O", "P", "S"}
DecimalDigits == {ToString(n) : n \in 0..9}

\* "p\..*([a-zA-Z][a-zA-Z]{2}?)(\d+)([a-zA-Z][a-zA-Z]{2}?)", IGNORECASE, matches
\* the characters c with "p." at i and group 1 at j, its digits ending at k
ProteinShapeAt(c, i, j, k) ==
  /\ c[i] \in {"p", "P"} /\ c[i + 1] = "."
  /\ i + 2 <= j /\ j + 3 <= k /\ k + 3 <= Len(c)
  /\ \A n \in j..(j + 2) : c[n] \in Letters
  /\ \A n \in (j + 3)..k : c[n] \in DecimalDigits
  /\ \A n \in (k + 1)..(k + 3) : c[n] \in Letters

\* re.search of that pattern in args0: the empty sequence for None, else the
\* groups of the leftmost match, whose ".*" runs as far as it can
SearchProteinShape(args0) ==
  LET c == Spell(args0)
      hits == {h \in (1..Len(c)) \X (1..Len(c)) \X (1..Len(c)) :
                 ProteinShapeAt(c, h[1], h[2], h[3])}
  IN IF hits = {} THEN <<>>
     ELSE LET i == CHOOSE a \in {h[1] : h \in hits} : \A h \in hits : a <= h[1]
              at_i == {h \in hits : h[1] = i}
              j == CHOOSE a \in {h[2] : h \in at_i} : \A h \in at_i : h[2] <= a
              at_j == {h \in at_i : h[2] = j}
              k == CHOOSE a \in {h[3] : h \in at_j} : \A h \in at_j : h[3] <= a
          IN <<[group1 |-> SubSeq(c, j, j + 2),
                group2 |-> SubSeq(c, j + 3, k),
                group3 |-> SubSeq(c, k + 1, k + 3)]>>

\* re.search("one of .+ or a digit$", expected_str)
SearchOneOfOrADigit(expected_str) ==
  expected_str # <<>> /\ expected_str[Len(expected_str)] = OneOfOrADigit

\* re.search(r"^(NM[^,]+), (NP.+)", v): the groups, or the empty sequence
SearchDualAccession(v) ==
  LET commas == {i \in 1..Len(v) : v[i] = ","}
  IN IF Len(v) >= 2 /\ v[1] = "N" /\ v[2] = "M" /\ commas # {}
     THEN LET c == CHOOSE k \in commas : \A j \in commas : k <= j
          IN IF /\ c >= 4
                /\ Len(v) >= c + 4
                /\ v[c + 1] = " " /\ v[c + 2] = "N" /\ v[c + 3] = "P"
             THEN <<[group1 |-> SubSeq(v, 1, c - 1), group2 |-> SubSeq(v, c + 2, Len(v))]>>
             ELSE <<>>
     ELSE <<>>

\* ------------------------------------------------------------ result tree
\* HGVSExplained.__init__
HGVSExplained(v, obj, exc, error_type) ==
  [orig_var_string |-> v, hgvs_obj |-> obj, hgvs_parser_exc |-> exc,
   hgvs_error_type |-> error_type, parse_explain |-> <<>>]

\* HGVSExplained.add_explained
add_explained(node, expl_list) ==
  [node EXCEPT !.parse_explain = node.parse_explain \o expl_list]

\* ------------------------------------------------------------ rule names
\* a rule name is a sequence of characters
IsPrefix(w, s) == Len(w) <= Len(s) /\ SubSeq(s, 1, Len(w)) = w

ResidueLetters == {"c", "g", "m", "n", "p", "r"}
hgvs_variant == <<"h", "g", "v", "s", "_", "v", "a", "r", "i", "a", "n", "t">>
hgvs_position == <<"h", "g", "v", "s", "_", "p", "o", "s", "i", "t", "i", "o", "n">>
p_posedit_special == <<"p", "_", "p", "o", "s", "e", "d", "i", "t", "_", "s", "p", "e", "c", "i", "a", "l">>
c_position == <<"c", "_", "p", "o", "s", "i", "t", "i", "o", "n">>
hgvs_variants == <<"h", "g", "v", "s", "_", "v", "a", "r", "i", "a", "n", "t", "s">>
def_c_interval == <<"d", "e", "f", "_", "c", "_", "i", "n", "t", "e", "r", "v", "a", "l">>
c_rule_pos == <<"c", "_", "r", "u", "l", "e", "_", "p", "o", "s">>
accn == <<"a", "c", "c", "n">>
apply == <<"a", "p", "p", "l", "y">>
RulePrefix == <<"r", "u", "l", "e", "_">>

\* the words of exposed_rule_re:
\*   hgvs_(variant|position)|(c|g|m|n|p|r)_(edit|hgvs_position|interval|pos|posedit|variant)
ExposedRuleReWords ==
  {hgvs_variant, hgvs_position}
  \cup {<<t, "_">> \o k : t \in ResidueLetters,
          k \in {<<"e", "d", "i", "t">>,
                 hgvs_position,
                 <<"i", "n", "t", "e", "r", "v", "a", "l">>,
                 <<"p", "o", "s">>,
                 <<"p", "o", "s", "e", "d", "i", "t">>,
                 <<"v", "a", "r", "i", "a", "n", "t">>}}

\* exposed_rule_re.match(rule_name): the pattern is not anchored at its end
ExposedRuleReMatch(rule_name) == \E w \in ExposedRuleReWords : IsPrefix(w, rule_name)

\* m.replace("rule_", "")
RECURSIVE ReplaceRulePrefix(_)
ReplaceRulePrefix(m) ==
  IF m = <<>> THEN <<>>
  ELSE IF IsPrefix(RulePrefix, m) THEN ReplaceRulePrefix(SubSeq(m, Len(RulePrefix) + 1, Len(m)))
  ELSE <<Head(m)>> \o ReplaceRulePrefix(Tail(m))

\* dir(self._grammar._grammarClass) for a grammar with the rules g
Dir(g) == {RulePrefix \o n : n \in g} \cup {apply}

\* the list exposed_rules that _expose_rule_functions loops over
ExposedRules(g, expose_all) ==
  LET all == {ReplaceRulePrefix(m) : m \in {a \in Dir(g) : IsPrefix(RulePrefix, a)}}
  IN IF ~expose_all THEN {rule_name \in all : ExposedRuleReMatch(rule_name)} ELSE all

\* the rule names a grammar may define
RuleNames ==
  ExposedRuleReWords
  \cup {p_posedit_special, c_position, hgvs_variants, def_c_interval, c_rule_pos, accn}

\* the subsets of S with at most n elements
RECURSIVE SetsUpTo(_, _)
SetsUpTo(S, n) ==
  IF n = 0 THEN {{}}
  ELSE LET P == SetsUpTo(S, n - 1) IN P \cup {q \cup {x} : q \in P, x \in S}

\* the grammar of the parser that the calls below are made on
DefaultGrammar == {hgvs_variant, accn}

\* ------------------------------------------------------------------ state
VARIABLES
  call,     \* the call made on the parser: [op, v, explain]
  stack,    \* the active calls of parse_hgvs_variant_explain, outermost first
  oracle,   \* what the grammar engine answered for each text parsed so far
  ret,      \* how the call ended: a node, a value, or an exception
  grammar,  \* the names of the rules of the grammar class
  expose_all_rules,
  todo,     \* the rule names _expose_rule_functions has still to set an attribute for
  exposed   \* the rule names for which a parse_<name> attribute is set

vars == <<call, stack, oracle, ret, grammar, expose_all_rules, todo, exposed>>
ruleVars == <<grammar, expose_all_rules, todo, exposed>>

PE == "ParserExplainer"
PA == "Parser"

NoCall == [op |-> "none", v |-> <<>>, explain |-> FALSE]
Pending == [kind |-> "pending", node |-> <<>>, value |-> <<>>, exc_type |-> "", exc_args |-> <<>>]
RetNode(n) == [Pending EXCEPT !.kind = "node", !.node = <<n>>]
RetValue(x) == [Pending EXCEPT !.kind = "value", !.value = x]
RetRaise(type, args) == [Pending EXCEPT !.kind = "raise", !.exc_type = type, !.exc_args = args]

\* a call of parse_hgvs_variant_explain(v) of class cls that has not parsed yet
Frame(cls, v) ==
  [cls |-> cls, v |-> v, pc |-> "try", exc |-> <<>>, parts |-> <<>>, results |-> <<>>]

\* CPython ends a recursion that never returns with RecursionError.  A chain of
\* strictly shorter texts is at most MaxTextLen + 1 calls deep, so a deeper one
\* never ends and the limit cuts no recursion that would return.
RecursionLimit == MaxTextLen + 2

top == stack[Len(stack)]
rest == SubSeq(stack, 1, Len(stack) - 1)

ExpectsEOF(out) == ~out.ok /\ out.reason = <<"expected ", EOF>>

\* what the engine may answer for s: any outcome the first time s is parsed,
\* the same one after
Answers(s) ==
  IF s \in DOMAIN oracle THEN {oracle[s]}
  ELSE IF Cardinality({t \in DOMAIN oracle : ExpectsEOF(oracle[t])}) < MaxEOF
       THEN EngineOutcomes(s)
       ELSE {out \in EngineOutcomes(s) : ~ExpectsEOF(out)}

\* the engine answers `out` for s
Engine(s, out) ==
  /\ out \in Answers(s)
  /\ oracle' = IF s \in DOMAIN oracle THEN oracle ELSE oracle @@ (s :> out)

\* the exception leaves every active call: nothing in them catches it
Raise(type, args) ==
  /\ stack' = <<>>
  /\ ret' = RetRaise(type, args)

\* the innermost call returns node n to its caller
ReturnNode(n) ==
  IF rest = <<>>
  THEN stack' = <<>> /\ ret' = RetNode(n)
  ELSE /\ stack' = [rest EXCEPT ![Len(rest)].results = @ \o <<n>>]
       /\ ret' = ret

\* the innermost call of Parser.parse returns x; the caller drops it (v1, v2)
ReturnValue(x) ==
  IF rest = <<>>
  THEN stack' = <<>> /\ ret' = RetValue(x)
  ELSE stack' = rest /\ ret' = ret

Idle == call.op = "none"

Init ==
  /\ call = NoCall
  /\ stack = <<>>
  /\ oracle = <<>>
  /\ ret = Pending
  /\ grammar = DefaultGrammar
  /\ expose_all_rules = FALSE
  /\ todo = {}
  /\ exposed = ExposedRules(grammar, expose_all_rules)

\* ------------------------------------------------- the call on the parser
\* ParserExplainer.parse_hgvs_variant_explain(v), called from outside
ExplainCall ==
  \E v \in Texts :
    /\ Idle
    /\ hgvs_variant \in exposed
    /\ call' = [op |-> "explain", v |-> v, explain |-> TRUE]
    /\ stack' = <<Frame(PE, v)>>
    /\ UNCHANGED <<oracle, ret, ruleVars>>

\* Parser.parse with the test of its flag lost: explain mode for every call
ParseDispatch_AlwaysExplain(explain) == "try"

\* which operation Parser.parse runs for its flag
ParseDispatch(explain) == IF explain THEN "try" ELSE "plain"

\* Parser.parse(v, explain), called from outside
ParseCall ==
  \E v \in Texts, explain \in BOOLEAN :
    /\ Idle
    /\ hgvs_variant \in exposed
    /\ call' = [op |-> "parse", v |-> v, explain |-> explain]
    /\ stack' = <<[Frame(PA, v) EXCEPT !.pc = ParseDispatch(explain)]>>
    /\ UNCHANGED <<oracle, ret, ruleVars>>

\* rule_fxn(s) for the hgvs_variant rule, not inside any try: the value, or
\* HGVSParseError with the formatted message
RuleFxn ==
  /\ stack # <<>>
  /\ top.pc = "plain"
  /\ \E out \in Answers(top.v) :
       /\ Engine(top.v, out)
       /\ stack' = <<>>
       /\ ret' = IF out.ok THEN RetValue(SequenceVariant(top.v))
                 ELSE RetRaise("HGVSParseError", FormatMessage(top.v, out.position, out.reason))
       /\ UNCHANGED <<call, ruleVars>>

\* the try block of parse_hgvs_variant_explain ends as out
Try(out) ==
  /\ Engine(top.v, out)
  /\ UNCHANGED <<call, ruleVars>>

\* exc.args[0] and what _explain reads from it
Args0(out) == FormatMessage(top.v, out.position, out.reason)
Match(out) == SearchCharExpected(Args0(out))
CharPos(out) == ToInt(Match(out)[1].group1)
ExpectedStr(out) == Match(out)[1].group2

\* the parse succeeds: a node holding the value
ExplainParsed ==
  /\ stack # <<>>
  /\ top.cls = PE /\ top.pc = "try"
  /\ \E out \in Answers(top.v) :
       /\ Try(out) /\ out.ok
       /\ ReturnNode(HGVSExplained(top.v, SequenceVariant(top.v), NoneVal, "None"))

\* hgvs_e built without its hgvs_parser_exc argument
Explained_NoExc(v, exc, expl_list) ==
  add_explained(HGVSExplained(v, NoneVal, NoneVal, "TBD"), expl_list)

\* hgvs_e of parse_hgvs_variant_explain with the list _explain returned added
Explained(v, exc, expl_list) ==
  add_explained(HGVSExplained(v, NoneVal, exc, "TBD"), expl_list)

\* a branch of _explain that returns [hgvs_e] for the text itself
LeafList(v, exc, error_type) == <<HGVSExplained(v, NoneVal, exc, error_type)>>

\* _explain: the message does not match, raise_exc calls the exception object
ExplainUnmatched ==
  /\ stack # <<>>
  /\ top.cls = PE /\ top.pc = "try"
  /\ \E out \in Answers(top.v) :
       /\ Try(out) /\ ~out.ok
       /\ Match(out) = <<>>
       /\ Raise("TypeError", <<"'HGVSParseError' object is not callable">>)

\* the EOF branch keeping the character at char_pos in the first part
EOFParts_KeepChar(v, char_pos) ==
  <<SliceTo(v, char_pos + 1), Strip(SliceFrom(v, char_pos + 1))>>

\* what the EOF branch parses again
EOFParts(v, char_pos) ==
  <<SliceTo(v, char_pos), Strip(SliceFrom(v, char_pos + 1))>>

\* _explain: expected_str == "EOF"
ExplainEOF ==
  /\ stack # <<>>
  /\ top.cls = PE /\ top.pc = "try"
  /\ \E out \in Answers(top.v) :
       /\ Try(out) /\ ~out.ok
       /\ Match(out) # <<>>
       /\ ExpectedStr(out) = <<EOF>>
       /\ stack' = [stack EXCEPT ![Len(stack)] =
                      [top EXCEPT !.pc = "parts", !.exc = Args0(out),
                                  !.parts = EOFParts(top.v, CharPos(out))]]
       /\ ret' = ret

\* the hgvs_error_type of the "a digit" branch: the match m of the shape test
\* only decides whether a line is logged
ADigitErrorType(m) == "looks like a p."

\* _explain: expected_str == "a digit"
ExplainADigit ==
  /\ stack # <<>>
  /\ top.cls = PE /\ top.pc = "try"
  /\ \E out \in Answers(top.v) :
       /\ Try(out) /\ ~out.ok
       /\ Match(out) # <<>>
       /\ ExpectedStr(out) = <<ADigit>>
       /\ ReturnNode(Explained(top.v, Args0(out),
                               LeafList(top.v, Args0(out),
                                        ADigitErrorType(SearchProteinShape(Args0(out))))))

\* the conditions of _explain's if/elif chain, in its order
IsEOF(out) == ExpectedStr(out) = <<EOF>>
IsADigit(out) == ExpectedStr(out) = <<ADigit>>
\* _explain without the char_pos == 1 branch
IsFirstChar_Never(out) == FALSE
IsFirstChar(out) == CharPos(out) = 1
IsOneOf(out) == SearchOneOfOrADigit(ExpectedStr(out))

\* _explain: char_pos == 1
ExplainInvalidChar ==
  /\ stack # <<>>
  /\ top.cls = PE /\ top.pc = "try"
  /\ \E out \in Answers(top.v) :
       /\ Try(out) /\ ~out.ok
       /\ Match(out) # <<>>
       /\ ~IsEOF(out) /\ ~IsADigit(out)
       /\ IsFirstChar(out)
       /\ ReturnNode(Explained(top.v, Args0(out),
                               LeafList(top.v, Args0(out), "invalid char")))
   
\* _explain: "one of ... or a digit", and the logging call reads v[char_pos]
\* past the end of v
ExplainOneOfIndexError ==
  /\ stack # <<>>
  /\ top.cls = PE /\ top.pc = "try"
  /\ \E out \in Answers(top.v) :
       /\ Try(out) /\ ~out.ok
       /\ Match(out) # <<>>
       /\ ~IsEOF(out) /\ ~IsADigit(out) /\ ~IsFirstChar(out)
       /\ IsOneOf(out)
       /\ CharPos(out) >= Len(top.v)
       /\ Raise("IndexError", <<"string index out of range">>)

\* _explain: "one of ... or a digit" and v is two accessions
ExplainDualAccession ==
  /\ stack # <<>>
  /\ top.cls = PE /\ top.pc = "try"
  /\ \E out \in Answers(top.v) :
       /\ Try(out) /\ ~out.ok
       /\ Match(out) # <<>>
       /\ ~IsEOF(out) /\ ~IsADigit(out) /\ ~IsFirstChar(out)
       /\ IsOneOf(out)
       /\ CharPos(out) < Len(top.v)
       /\ SearchDualAccession(top.v) # <<>>
       /\ stack' = [stack EXCEPT ![Len(stack)] =
                      [top EXCEPT !.pc = "parts", !.exc = Args0(out),
                                  !.parts = <<SearchDualAccession(top.v)[1].group1,
                                              SearchDualAccession(top.v)[1].group2>>]]
       /\ ret' = ret

\* _explain: "one of ... or a digit" and v is not two accessions
ExplainContainsInvalidChar ==
  /\ stack # <<>>
  /\ top.cls = PE /\ top.pc = "try"
  /\ \E out \in Answers(top.v) :
       /\ Try(out) /\ ~out.ok
       /\ Match(out) # <<>>
       /\ ~IsEOF(out) /\ ~IsADigit(out) /\ ~IsFirstChar(out)
       /\ IsOneOf(out)
       /\ CharPos(out) < Len(top.v)
       /\ SearchDualAccession(top.v) = <<>>
       /\ ReturnNode(Explained(top.v, Args0(out),
                               LeafList(top.v, Args0(out), "contains invalid char")))

\* _explain: the next elif hands the exception object, not a string, to
\* re.search, which raises TypeError; the branches after it are never run
ExplainResidueSearch ==
  /\ stack # <<>>
  /\ top.cls = PE /\ top.pc = "try"
  /\ \E out \in Answers(top.v) :
       /\ Try(out) /\ ~out.ok
       /\ Match(out) # <<>>
       /\ ~IsEOF(out) /\ ~IsADigit(out) /\ ~IsFirstChar(out)
       /\ ~IsOneOf(out)
       /\ Raise("TypeError", <<"expected string or bytes-like object">>)

\* the loop over the parts calls parse_hgvs_variant_explain on the next part
\* (Parser.parse_hgvs_variant_explain: self.parse(part, explain=True))
CallPart ==
  /\ stack # <<>>
  /\ top.pc = "parts" /\ top.parts # <<>>
  /\ Len(stack) < RecursionLimit
  /\ stack' = [stack EXCEPT ![Len(stack)].parts = Tail(@)]
                \o <<Frame(top.cls, Head(top.parts))>>
  /\ UNCHANGED <<call, oracle, ret, ruleVars>>

\* the same call with the interpreter's stack used up
RecursionOverflow ==
  /\ stack # <<>>
  /\ top.pc = "parts" /\ top.parts # <<>>
  /\ Len(stack) >= RecursionLimit
  /\ Raise("RecursionError", <<"maximum recursion depth exceeded">>)
  /\ UNCHANGED <<call, oracle, ruleVars>>

\* both parts are explained: hgvs_e.add_explained(*expl_list); return hgvs_e
ExplainReturn ==
  /\ stack # <<>>
  /\ top.cls = PE /\ top.pc = "parts" /\ top.parts = <<>>
  /\ ReturnNode(Explained(top.v, top.exc, top.results))
  /\ UNCHANGED <<call, oracle, ruleVars>>

\* ---------------------------------- Parser.parse_hgvs_variant_explain
ParserParsed ==
  /\ stack # <<>>
  /\ top.cls = PA /\ top.pc = "try"
  /\ \E out \in Answers(top.v) :
       /\ Try(out) /\ out.ok
       /\ ReturnValue(SequenceVariant(top.v))

\* raise exc( msg )
ParserUnmatched ==
  /\ stack # <<>>
  /\ top.cls = PA /\ top.pc = "try"
  /\ \E out \in Answers(top.v) :
       /\ Try(out) /\ ~out.ok
       /\ Match(out) = <<>>
       /\ Raise("TypeError", <<"'HGVSParseError' object is not callable">>)

ParserEOF ==
  /\ stack # <<>>
  /\ top.cls = PA /\ top.pc = "try"
  /\ \E out \in Answers(top.v) :
       /\ Try(out) /\ ~out.ok
       /\ Match(out) # <<>>
       /\ IsEOF(out)
       /\ stack' = [stack EXCEPT ![Len(stack)] =
                      [top EXCEPT !.pc = "parts", !.exc = Args0(out),
                                  !.parts = EOFParts(top.v, CharPos(out))]]
       /\ ret' = ret

\* "a digit" and every other description: only printed, the method ends
ParserPrinted ==
  /\ stack # <<>>
  /\ top.cls = PA /\ top.pc = "try"
  /\ \E out \in Answers(top.v) :
       /\ Try(out) /\ ~out.ok
       /\ Match(out) # <<>>
       /\ ~IsEOF(out)
       /\ ReturnValue(NoneVal)

\* after both parts the method ends without a return statement
ParserReturn ==
  /\ stack # <<>>
  /\ top.cls = PA /\ top.pc = "parts" /\ top.parts = <<>>
  /\ ReturnValue(NoneVal)
  /\ UNCHANGED <<call, oracle, ruleVars>>

Next ==
  \/ ExplainCall
  \/ ParseCall
  \/ RuleFxn
  \/ ExplainParsed
  \/ ExplainUnmatched
  \/ ExplainEOF
  \/ ExplainADigit
  \/ ExplainInvalidChar
  \/ ExplainOneOfIndexError
  \/ ExplainDualAccession
  \/ ExplainContainsInvalidChar
  \/ ExplainResidueSearch
  \/ CallPart
  \/ RecursionOverflow
  \/ ExplainReturn
  \/ ParserParsed
  \/ ParserUnmatched
  \/ ParserEOF
  \/ ParserPrinted
  \/ ParserReturn

Spec == Init /\ [][Next]_vars

\* ------------------------------------------------ Parser.__init__ alone
\* Parser(grammar_fn, expose_all_rules) at the call of _expose_rule_functions
InitRules ==
  /\ call = NoCall
  /\ stack = <<>>
  /\ oracle = <<>>
  /\ ret = Pending
  /\ grammar \in SetsUpTo(RuleNames, MaxRules)
  /\ expose_all_rules \in BOOLEAN
  /\ todo = ExposedRules(grammar, expose_all_rules)
  /\ exposed = {}

\* one turn of the loop: self.__setattr__("parse_" + rule_name, rule_fxn)
ExposeRule ==
  \E rule_name \in todo :
    /\ todo' = todo \ {rule_name}
    /\ exposed' = exposed \cup {rule_name}
    /\ UNCHANGED <<call, stack, oracle, ret, grammar, expose_all_rules>>

NextRules == ExposeRule

SpecRules == InitRules /\ [][NextRules]_vars

\* ------------------------------------------------------------ properties
Explaining == call.op = "explain"
Finished == ret.kind # "pending"
Returned == Explaining /\ ret.kind = "node"
Root == ret.node[1]

\* the engine's answer for the text of the call, once it was asked
TopAsked == call.v \in DOMAIN oracle
TopOut == oracle[call.v]
TopFailed == TopAsked /\ ~TopOut.ok
TopExpects(d) == TopFailed /\ TopOut.reason = <<"expected ", d>>
\* what _explain reads from the message of that answer
TopArgs0 == FormatMessage(call.v, TopOut.position, TopOut.reason)
TopMatch == SearchCharExpected(TopArgs0)
TopCharPos == ToInt(TopMatch[1].group1)
TopExpectedStr == TopMatch[1].group2

OrigVarStrings(nodes) == [i \in 1..Len(nodes) |-> nodes[i].orig_var_string]

\* every position the engine reported is a 1-based offset into its text
OneBasedPositions ==
  \A t \in DOMAIN oracle :
    ~oracle[t].ok => 1 <= oracle[t].position /\ oracle[t].position <= Len(t)

\* every recursive call has a text strictly shorter than its caller's, the
\* recursion is no deeper than the input is long, and it is never cut off
ShrinkingRecursion ==
  /\ \A i \in 2..Len(stack) : Len(stack[i].v) < Len(stack[i - 1].v)
  /\ Len(stack) - 1 <= Len(call.v)
  /\ ret.exc_type # "RecursionError"

\* C1 as stated: with 1-based positions, 1 <= position <= length, every
\* recursive call of ParserExplainer.parse_hgvs_variant_explain gets a text
\* strictly shorter than its caller's, so the call terminates and the recursion
\* is never deeper than the input is long.
C1_RecursiveCallsShrink ==
  Explaining /\ OneBasedPositions => ShrinkingRecursion

\* every failure expecting EOF was reported at the 0-based offset of a character
\* of its text
EOFInsideText ==
  \A t \in DOMAIN oracle : ExpectsEOF(oracle[t]) => oracle[t].position < Len(t)

\* C1 amended: when every failure that expects EOF is reported at the 0-based
\* offset of a character of its text (0 <= position < length), every recursive
\* call gets a text strictly shorter than its caller's, the call terminates and
\* the recursion is never deeper than the input is long.
C1_RecursiveCallsShrinkInsideText ==
  Explaining /\ EOFInsideText => ShrinkingRecursion

\* the part of an EOF split being explained, two calls deep
C1_Witness ==
  /\ Explaining /\ EOFInsideText
  /\ TopExpects(EOF)
  /\ Len(stack) = 2

\* C2: when the engine expects EOF at position p of the text v, the node
\* returned for v has exactly the children v[0:p] and strip(v[p+1:]), in order.
C2_EOFGivesTwoParts ==
  Returned /\ TopExpects(EOF) =>
    OrigVarStrings(Root.parse_explain) =
      <<SliceTo(call.v, TopOut.position),
        Strip(SliceFrom(call.v, TopOut.position + 1))>>

\* a text parsed in this run failed with a message that is not of the shape
\* "char <position>: expected <description>"
UnmatchedTexts ==
  {t \in DOMAIN oracle :
     /\ ~oracle[t].ok
     /\ SearchCharExpected(FormatMessage(t, oracle[t].position, oracle[t].reason)) = <<>>}

\* C3: when a parse fails with a message of another shape, the explain call ends
\* with that HGVSParseError itself raised to the caller, and nothing else.
C3_UnmatchedRaisesOriginal ==
  Explaining /\ Finished =>
    \A t \in UnmatchedTexts :
      /\ ret.kind = "raise"
      /\ ret.exc_type = "HGVSParseError"
      /\ ret.exc_args = FormatMessage(t, oracle[t].position, oracle[t].reason)

\* C4: when the engine expects "a digit" or the residue-type letters for the
\* text, the node returned for the text has no children.
C4_DigitAndResidueHaveNoChildren ==
  Returned /\ (TopExpects(ADigit) \/ TopExpects(ResidueTypes)) =>
    Root.parse_explain = <<>>

\* every failure node for the empty text in the tree under n is a leaf
RECURSIVE EmptyTextNodesAreLeaves(_)
EmptyTextNodesAreLeaves(n) ==
  /\ n.orig_var_string = <<>> /\ n.hgvs_parser_exc # NoneVal => n.parse_explain = <<>>
  /\ \A i \in 1..Len(n.parse_explain) : EmptyTextNodesAreLeaves(n.parse_explain[i])

\* C5: explaining the empty text, as the text of the call or as a part of an
\* EOF split, returns a failure node without children, makes no recursive call
\* and raises nothing.
C5_EmptyTextIsALeaf ==
  Explaining =>
    /\ \A i \in 1..Len(stack) : stack[i].v = <<>> => i = Len(stack)
    /\ call.v = <<>> /\ TopFailed /\ Finished =>
         ret.kind = "node" /\ Root.hgvs_parser_exc # NoneVal /\ Root.parse_explain = <<>>
    /\ ret.kind = "node" => EmptyTextNodesAreLeaves(Root)

\* exactly one of hgvs_obj and hgvs_parser_exc is set in n and in every node
\* under it, and a node with hgvs_obj has no children
RECURSIVE WellFormed(_)
WellFormed(n) ==
  /\ (n.hgvs_obj # NoneVal) # (n.hgvs_parser_exc # NoneVal)
  /\ n.hgvs_obj # NoneVal => n.parse_explain = <<>>
  /\ \A i \in 1..Len(n.parse_explain) : WellFormed(n.parse_explain[i])

\* C6: in every tree returned by ParserExplainer.parse_hgvs_variant_explain each
\* node has exactly one of the parsed value and the failure, and a node with a
\* parsed value has no children.
C6_EveryNodeIsValueOrFailure ==
  Returned => WellFormed(Root)

\* a returned tree with a parsed part and a failed part under a failed root
C6_Witness ==
  /\ Returned
  /\ Len(Root.parse_explain) = 2
  /\ Root.parse_explain[1].hgvs_obj # NoneVal
  /\ Root.parse_explain[2].hgvs_parser_exc # NoneVal

\* the names C7 calls canonical
CanonicalNames ==
  {hgvs_variant, hgvs_position}
  \cup {<<t, "_">> \o k : t \in {"c", "g", "m", "n", "p", "r"},
          k \in {<<"e", "d", "i", "t">>, hgvs_position, <<"i", "n", "t", "e", "r", "v", "a", "l">>, <<"p", "o", "s">>, <<"p", "o", "s", "e", "d", "i", "t">>, <<"v", "a", "r", "i", "a", "n", "t">>}}

\* C7: with expose_all_rules false, parse_<name> is set for a rule name of the
\* grammar exactly when the name is one of the canonical names.
C7_DefaultExposesExactlyCanonical ==
  todo = {} /\ ~expose_all_rules =>
    \A name \in grammar : name \in exposed <=> name \in CanonicalNames

\* C8: Parser.parse(v) with explain left at its default ends as
\* parse_hgvs_variant(v) does: with the value parsed, or with HGVSParseError
\* carrying the formatted message, after one parse of v and nothing else.
C8_ParseDefaultIsParseHgvsVariant ==
  call.op = "parse" /\ ~call.explain =>
    /\ Len(stack) <= 1
    /\ DOMAIN oracle \subseteq {call.v}
    /\ Finished =>
         /\ TopAsked
         /\ ret = IF TopOut.ok THEN RetValue(SequenceVariant(call.v))
                  ELSE RetRaise("HGVSParseError", TopArgs0)

\* Parser.parse(v) ended with the engine's failure
C8_Witness ==
  call.op = "parse" /\ ~call.explain /\ ret.kind = "raise" /\ TopFailed

\* C9 as stated: a failure expecting "one of ... or a digit" is handled by the
\* ambiguous-character strategy whatever its position, so a dual-accession text
\* gets two children, one per accession, in that order.
C9_OneOfSplitsAtAnyPosition ==
  Returned /\ TopExpects(OneOfOrADigit) /\ SearchDualAccession(call.v) # <<>> =>
    OrigVarStrings(Root.parse_explain) =
      <<SearchDualAccession(call.v)[1].group1, SearchDualAccession(call.v)[1].group2>>

\* C9 amended: the strategy depends on the description and on the position read
\* from the message.  When the description matches "one of ... or a digit": at
\* position 1 the node gets the single leaf "invalid char" and nothing is split;
\* at any other position for which a node is returned the position is inside
\* the text, a dual-accession text gets its two accessions as children in
\* order, and any other text gets the single leaf "contains invalid char".
C9_OneOfSplitsUnlessFirstChar ==
  Returned /\ TopFailed /\ TopMatch # <<>> /\ SearchOneOfOrADigit(TopExpectedStr) =>
    IF TopCharPos = 1
    THEN Root.parse_explain = LeafList(call.v, TopArgs0, "invalid char")
    ELSE /\ TopCharPos < Len(call.v)
         /\ IF SearchDualAccession(call.v) # <<>>
            THEN OrigVarStrings(Root.parse_explain) =
                   <<SearchDualAccession(call.v)[1].group1,
                     SearchDualAccession(call.v)[1].group2>>
            ELSE Root.parse_explain = LeafList(call.v, TopArgs0, "contains invalid char")

\* a dual-accession text split into its two accessions
C9_Witness ==
  /\ Returned /\ TopExpects(OneOfOrADigit)
  /\ TopCharPos # 1
  /\ SearchDualAccession(call.v) # <<>>
  /\ Len(Root.parse_explain) = 2

\* C10: a failure of the structured shape that no splitting strategy applies to
\* ("a digit", "one of ... or a digit" on a text that is not two accessions, the
\* residue-type letters, any other description) ends with a node reporting the
\* failure, never with an exception.
C10_UnsplittableIsReportedNotRaised ==
  /\ Explaining /\ Finished
  /\ \/ TopExpects(ADigit)
     \/ TopExpects(ResidueTypes)
     \/ TopExpects(OtherExpected)
     \/ TopExpects(OneOfOrADigit) /\ SearchDualAccession(call.v) = <<>>
  => ret.kind = "node" /\ Root.hgvs_parser_exc = TopArgs0

\* what _explain reads from the message rule_fxn builds for a failure on t
MessageOf(t) == FormatMessage(t, oracle[t].position, oracle[t].reason)
Extracted(t) == SearchCharExpected(MessageOf(t))

\* C12: the position and the expected description _explain extracts from the
\* message "<s>: char <position>: expected <description>" are the ones the
\* engine reported, whatever characters s holds.
C12_ExtractionIsLossless ==
  Explaining =>
    \A t \in DOMAIN oracle :
      ~oracle[t].ok /\ oracle[t].reason[1] = "expected " =>
        /\ Extracted(t) # <<>>
        /\ ToInt(Extracted(t)[1].group1) = oracle[t].position
        /\ Extracted(t)[1].group2 = <<oracle[t].reason[2]>>

\* the leaf _explain returned for an "a digit" failure of the text of the call
ADigitBranch == Returned /\ TopFailed /\ TopMatch # <<>> /\ TopExpectedStr = <<ADigit>>
ADigitLeaf == Root.parse_explain[1]

\* C11: for a failure expecting "a digit", the leaf is annotated as looking
\* like protein-change shorthand only when the shape test matches the message,
\* and otherwise carries the raw expected description.
C11_ADigitAnnotationFollowsShape ==
  ADigitBranch =>
    /\ Len(Root.parse_explain) = 1
    /\ ADigitLeaf.hgvs_error_type =
         IF SearchProteinShape(TopArgs0) # <<>> THEN "looks like a p." ELSE ADigit
=============================================================================
